---- MODULE Spec2Model ----
(***************************************************************************)
(* Model of src/src/utils.c: the lazily seeded random source               *)
(* (genrand_real1, init_by_array), the validation guards that terminate    *)
(* the process with exit(1), the QASM overflow trap and the diagnostic     *)
(* stub.                                                                   *)
(*                                                                         *)
(* A state holds one or two process runs ("runs").  Every variable is a    *)
(* function over the runs; DOMAIN status is the set of runs of the         *)
(* behaviour.  Spec has one run, SpecPair has two independent runs of the  *)
(* RNG operations, used to compare the draws of two processes.             *)
(***************************************************************************)
EXTENDS Integers, Sequences, FiniteSets, TLC

VARIABLES
    initialized,  \* utils.c:12  static int initialized of genrand_real1
    seed,         \* argument of the last srand() call (1 before any call)
    pos,          \* number of rand() calls since the last srand()
    status,       \* "running" or "exited"
    exitStatus,   \* <<argument of exit()>>, NoExit while running
    last,         \* the last call of the run: name, arguments, outcome, value
    key,          \* observation: <<init_key[0]>> of the last init_by_array, NoKey if none
    drawn,        \* observation: values genrand_real1 returned since that call
    draws,        \* observation: number of genrand_real1 calls of the run
    autoSeeds     \* observation: number of srand(time(NULL)) calls of the run

vars == <<initialized, seed, pos, status, exitStatus, last, key, drawn, draws, autoSeeds>>

Runs == DOMAIN status

------------------------------------------------------------------------------
(* Bounds of the model *)

\* RAND_MAX of <stdlib.h>, scaled down: rand() returns a value in 0..RAND_MAX
RAND_MAX == 7
\* genrand_real1 calls per run
MaxDraws == 3
\* time(NULL) returns a value in 1..MaxTime
MaxTime == 2
\* qubit indices and counts are drawn from -1..MaxIdx (and the int extremes)
MaxIdx == 2

------------------------------------------------------------------------------
(* Values of the C types the functions take *)

INT_MAX == 2147483647
INT_MIN == -2147483647 - 1

\* int arguments of validateControlTarget / validateTarget
IdxSample == (-1 .. MaxIdx) \cup {INT_MIN, INT_MAX}

\* utils.c:45  the largest accepted qubit count
MaxNumQubits == 50

\* int arguments of validateNumQubitsInQureg / validateQuregAllocation
CountSample == {INT_MIN, -1, 0, 1, 5, MaxNumQubits - 1, MaxNumQubits,
                MaxNumQubits + 1, INT_MAX}

\* A long long int is <<hi, mid, lo>>, its two's-complement value being
\* hi * 2^32 + mid * 2^16 + lo, with hi a signed 32-bit word and mid, lo
\* unsigned 16-bit halves of the low word.
Limb == 65536
LLONG_MAX == <<INT_MAX, Limb - 1, Limb - 1>>
LLONG_MIN == <<INT_MIN, 0, 0>>
LLSample == { LLONG_MIN, <<-1, Limb - 1, Limb - 5>>, <<-1, Limb - 1, Limb - 1>>,
              <<0, 0, 0>>, <<0, 0, 1>>, <<0, 0, 1024>>, <<0, 1, 0>>,
              <<1, 0, 0>>, LLONG_MAX }

\* void* handles, as addresses; NULL is address 0
NULL == 0
HandleSample == {NULL, 4096, 8192}

\* unsigned long init_key[] arrays (non-empty: init_key[0] is read) and the
\* key_length argument; the keys are within the range of unsigned int, so
\* the conversion at the srand() call keeps their value
KeyArrays == { <<42>>, <<7>>, <<42, 7>> }
KeyLengths == {1, 2}

Times == 1 .. MaxTime

\* key and exitStatus hold <<>> or a one-element sequence
NoKey == <<>>
NoExit == <<>>

------------------------------------------------------------------------------
(* rand() / srand() of the C library: a linear congruential generator over *)
(* 0..RAND_MAX.  srand(s) sets the generator state to s; the n-th rand()   *)
(* after it returns the n-th iterate.                                      *)

RECURSIVE RandState(_, _)
RandState(s, n) ==
    IF n = 0 THEN s % (RAND_MAX + 1)
    ELSE (13 * RandState(s, n - 1) + 1) % (RAND_MAX + 1)

\* variant: divides by a hard-coded maximum smaller than the library's RAND_MAX
Quotient_SmallMax(r) == <<r, RAND_MAX \div 2>>

\* (double)rand() / (double)RAND_MAX, kept as the exact fraction <<num, den>>
Quotient(r) == <<r, RAND_MAX>>

\* comparisons of such a fraction (den > 0) with 0 and 1
AtLeastZero(v) == v[1] >= 0
LessThanOne(v) == v[1] < v[2]
AtMostOne(v) == v[1] <= v[2]

------------------------------------------------------------------------------
(* The call record of a run *)

Call(op, args, outcome, ret) ==
    [op |-> op, args |-> args, outcome |-> outcome, ret |-> ret]

\* variant: a returning guard consumes one rand() value
Return_CallsRand(p, op, args) ==
    /\ last' = [last EXCEPT ![p] = Call(op, args, "returned", <<>>)]
    /\ pos' = [pos EXCEPT ![p] = @ + 1]
    /\ UNCHANGED <<initialized, seed, status, exitStatus, key, drawn,
                   draws, autoSeeds>>

\* the function returns to its caller: only the call record changes
Return(p, op, args) ==
    /\ last' = [last EXCEPT ![p] = Call(op, args, "returned", <<>>)]
    /\ UNCHANGED <<initialized, seed, pos, status, exitStatus, key, drawn,
                   draws, autoSeeds>>

\* exit(code): the process terminates
Exit(p, op, args, code) ==
    /\ status' = [status EXCEPT ![p] = "exited"]
    /\ exitStatus' = [exitStatus EXCEPT ![p] = <<code>>]
    /\ last' = [last EXCEPT ![p] = Call(op, args, "exited", <<>>)]
    /\ UNCHANGED <<initialized, seed, pos, key, drawn, draws, autoSeeds>>

------------------------------------------------------------------------------
(* utils.c:10-19 *)

\* variant: the flag is tested but never set
genrand_real1_FlagNotSet(p) ==
    /\ status[p] = "running"
    /\ draws[p] < MaxDraws
    /\ \E t \in Times :
        LET first == initialized[p] = 0
            s == IF first THEN t ELSE seed[p]
            n == IF first THEN 0 ELSE pos[p]
            v == Quotient(RandState(s, n + 1))
        IN  /\ seed' = [seed EXCEPT ![p] = s]
            /\ pos' = [pos EXCEPT ![p] = n + 1]
            /\ autoSeeds' = [autoSeeds EXCEPT ![p] = @ + (IF first THEN 1 ELSE 0)]
            /\ draws' = [draws EXCEPT ![p] = @ + 1]
            /\ drawn' = [drawn EXCEPT ![p] = Append(@, v)]
            /\ last' = [last EXCEPT ![p] = Call("genrand_real1", <<>>, "returned", v)]
            /\ UNCHANGED <<initialized, status, exitStatus, key>>

genrand_real1(p) ==
    /\ status[p] = "running"
    /\ draws[p] < MaxDraws
    /\ \E t \in Times :
        LET first == initialized[p] = 0
            s == IF first THEN t ELSE seed[p]
            n == IF first THEN 0 ELSE pos[p]
            v == Quotient(RandState(s, n + 1))
        IN  /\ initialized' = [initialized EXCEPT ![p] = 1]
            /\ seed' = [seed EXCEPT ![p] = s]
            /\ pos' = [pos EXCEPT ![p] = n + 1]
            /\ autoSeeds' = [autoSeeds EXCEPT ![p] = @ + (IF first THEN 1 ELSE 0)]
            /\ draws' = [draws EXCEPT ![p] = @ + 1]
            /\ drawn' = [drawn EXCEPT ![p] = Append(@, v)]
            /\ last' = [last EXCEPT ![p] = Call("genrand_real1", <<>>, "returned", v)]
            /\ UNCHANGED <<status, exitStatus, key>>

(* utils.c:22-26 *)

init_by_array(p) ==
    /\ status[p] = "running"
    /\ \E init_key \in KeyArrays, key_length \in KeyLengths :
        /\ seed' = [seed EXCEPT ![p] = init_key[1]]
        /\ pos' = [pos EXCEPT ![p] = 0]
        /\ key' = [key EXCEPT ![p] = <<init_key[1]>>]
        /\ drawn' = [drawn EXCEPT ![p] = <<>>]
        /\ last' = [last EXCEPT ![p] =
                      Call("init_by_array", <<key_length>> \o init_key, "returned", <<>>)]
        /\ UNCHANGED <<initialized, status, exitStatus, draws, autoSeeds>>

------------------------------------------------------------------------------
(* utils.c:29-34 *)

\* variant: off by one, an index equal to numQubits passes
ControlTargetFails_OffByOne(controlQubit, targetQubit, numQubits) ==
    \/ controlQubit > numQubits
    \/ targetQubit > numQubits
    \/ controlQubit = targetQubit

ControlTargetFails(controlQubit, targetQubit, numQubits) ==
    \/ controlQubit >= numQubits
    \/ targetQubit >= numQubits
    \/ controlQubit = targetQubit

validateControlTarget(p) ==
    /\ status[p] = "running"
    /\ \E c \in IdxSample, t \in IdxSample, n \in IdxSample :
        IF ControlTargetFails(c, t, n)
        THEN Exit(p, "validateControlTarget", <<c, t, n>>, 1)
        ELSE Return(p, "validateControlTarget", <<c, t, n>>)

(* utils.c:36-41 *)

\* variant: with a lower-bound check on the index
TargetFails_LowerBound(targetQubit, numQubits) ==
    targetQubit < 0 \/ targetQubit >= numQubits

TargetFails(targetQubit, numQubits) == targetQubit >= numQubits

validateTarget(p) ==
    /\ status[p] = "running"
    /\ \E t \in IdxSample, n \in IdxSample :
        IF TargetFails(t, n)
        THEN Exit(p, "validateTarget", <<t, n>>, 1)
        ELSE Return(p, "validateTarget", <<t, n>>)

(* utils.c:43-49 *)

\* variant: off by one, MaxNumQubits itself is rejected
NumQubitsFails_OffByOne(numQubits) == numQubits <= 0 \/ numQubits >= MaxNumQubits

NumQubitsFails(numQubits) == numQubits <= 0 \/ numQubits > MaxNumQubits

validateNumQubitsInQureg(p) ==
    /\ status[p] = "running"
    /\ \E n \in CountSample :
        IF NumQubitsFails(n)
        THEN Exit(p, "validateNumQubitsInQureg", <<n>>, 1)
        ELSE Return(p, "validateNumQubitsInQureg", <<n>>)

(* utils.c:51-56 *)

\* variant: the parameter is an int, the comparison sees the low 32 bits only
MemorySizeFails_IntParameter(numValues) ==
    \/ numValues[2] >= Limb \div 2
    \/ numValues[2] = 0 /\ numValues[3] = 0

\* numValues <= 0 on the 64-bit value
MemorySizeFails(numValues) ==
    \/ numValues[1] < 0
    \/ numValues[1] = 0 /\ numValues[2] = 0 /\ numValues[3] = 0

validateMemoryAllocationSize(p) ==
    /\ status[p] = "running"
    /\ \E n \in LLSample :
        IF MemorySizeFails(n)
        THEN Exit(p, "validateMemoryAllocationSize", n, 1)
        ELSE Return(p, "validateMemoryAllocationSize", n)

(* utils.c:58-63 *)

\* variant: the qubit count is checked as well
QuregAllocationFails_ChecksCount(qureg, numQubits) == qureg = NULL \/ numQubits <= 0

QuregAllocationFails(qureg, numQubits) == qureg = NULL

validateQuregAllocation(p) ==
    /\ status[p] = "running"
    /\ \E q \in HandleSample, n \in CountSample :
        IF QuregAllocationFails(q, n)
        THEN Exit(p, "validateQuregAllocation", <<q, n>>, 1)
        ELSE Return(p, "validateQuregAllocation", <<q, n>>)

(* utils.c:66-69 *)

\* variant: terminates with the success status
raiseQASMBufferOverflow_ExitZero(p) ==
    /\ status[p] = "running"
    /\ Exit(p, "raiseQASMBufferOverflow", <<>>, 0)

raiseQASMBufferOverflow(p) ==
    /\ status[p] = "running"
    /\ Exit(p, "raiseQASMBufferOverflow", <<>>, 1)

(* utils.c:72-74 *)

triad_print_info(p) ==
    /\ status[p] = "running"
    /\ Return(p, "triad_print_info", <<>>)

------------------------------------------------------------------------------
(* Specifications *)

InitRuns(R) ==
    /\ initialized = [p \in R |-> 0]
    /\ seed = [p \in R |-> 1]
    /\ pos = [p \in R |-> 0]
    /\ status = [p \in R |-> "running"]
    /\ exitStatus = [p \in R |-> NoExit]
    /\ last = [p \in R |-> Call("start", <<>>, "returned", <<>>)]
    /\ key = [p \in R |-> NoKey]
    /\ drawn = [p \in R |-> <<>>]
    /\ draws = [p \in R |-> 0]
    /\ autoSeeds = [p \in R |-> 0]

Init == InitRuns({1})

Next ==
    \/ \E p \in Runs : genrand_real1(p)
    \/ \E p \in Runs : init_by_array(p)
    \/ \E p \in Runs : validateControlTarget(p)
    \/ \E p \in Runs : validateTarget(p)
    \/ \E p \in Runs : validateNumQubitsInQureg(p)
    \/ \E p \in Runs : validateMemoryAllocationSize(p)
    \/ \E p \in Runs : validateQuregAllocation(p)
    \/ \E p \in Runs : raiseQASMBufferOverflow(p)
    \/ \E p \in Runs : triad_print_info(p)

Spec == Init /\ [][Next]_vars

\* two runs of the RNG operations, each reading its own wall clock
InitPair == InitRuns({1, 2})

NextPair ==
    \/ \E p \in Runs : genrand_real1(p)
    \/ \E p \in Runs : init_by_array(p)

SpecPair == InitPair /\ [][NextPair]_vars

------------------------------------------------------------------------------
(* Properties *)

GuardOps == {"validateControlTarget", "validateTarget", "validateNumQubitsInQureg",
             "validateMemoryAllocationSize", "validateQuregAllocation"}

RngOps == {"genrand_real1", "init_by_array"}

Exited1(p) ==
    /\ last[p].outcome = "exited"
    /\ status[p] = "exited"
    /\ exitStatus[p] = <<1>>

Returned(p) ==
    /\ last[p].outcome = "returned"
    /\ status[p] = "running"
    /\ exitStatus[p] = NoExit

\* C1: two runs that each call init_by_array with the same init_key[0] and
\* then call genrand_real1 k times obtain the same k values, whatever the
\* wall-clock time of each run and wherever the init_by_array call stands.
C1_SameKeySameDraws ==
    \A p \in Runs, q \in Runs :
        (key[p] # NoKey /\ key[p] = key[q] /\ Len(drawn[p]) = Len(drawn[q]))
            => drawn[p] = drawn[q]

\* C2 as stated: every value genrand_real1 returns is in [0, 1).
C2_DrawBelowOne ==
    \A p \in Runs :
        last[p].op = "genrand_real1"
            => AtLeastZero(last[p].ret) /\ LessThanOne(last[p].ret)

\* C2 amended: every value genrand_real1 returns is in [0, 1]; it is 1
\* exactly when rand() returned RAND_MAX and below 1 otherwise.
C2_DrawInClosedUnit ==
    \A p \in Runs :
        last[p].op = "genrand_real1"
            => /\ AtLeastZero(last[p].ret)
               /\ AtMostOne(last[p].ret)
               /\ LessThanOne(last[p].ret) <=> last[p].ret[1] # RAND_MAX
               /\ last[p].ret[1] \in 0 .. RAND_MAX
               /\ last[p].ret[2] = RAND_MAX

C2_Witness ==
    \E p \in Runs :
        /\ last[p].op = "genrand_real1"
        /\ last[p].ret[1] = RAND_MAX
        /\ ~LessThanOne(last[p].ret)

\* C3: the wall-clock seeding happens exactly once, in the first
\* genrand_real1 call: the flag is 0 until that call, 1 from then on and
\* never reset, no later call reseeds; every init_by_array call sets the
\* seed to init_key[0] at once.
C3_State ==
    \A p \in Runs :
        /\ initialized[p] = (IF draws[p] = 0 THEN 0 ELSE 1)
        /\ autoSeeds[p] = (IF draws[p] = 0 THEN 0 ELSE 1)
        /\ last[p].op = "init_by_array"
            => seed[p] = last[p].args[2] /\ pos[p] = 0 /\ key[p] = <<seed[p]>>

C3_Step ==
    \A p \in Runs :
        /\ initialized[p] = 1 => initialized'[p] = 1
        /\ autoSeeds'[p] # autoSeeds[p]
            => /\ draws[p] = 0 /\ draws'[p] = 1
               /\ last'[p].op = "genrand_real1"
               /\ seed'[p] \in Times
        /\ (draws[p] > 0 /\ draws'[p] # draws[p])
            => seed'[p] = seed[p] /\ pos'[p] = pos[p] + 1

C3_AutoSeedOnce == []C3_State /\ [][C3_Step]_vars

C3_Witness ==
    \E p \in Runs :
        /\ draws[p] >= 2
        /\ autoSeeds[p] = 1
        /\ last[p].op = "init_by_array"

\* C4: validateControlTarget exits with status 1 exactly when
\* control >= total or target >= total or control = target, and returns for
\* every other triple, negative indices included.
C4_ControlTarget ==
    \A p \in Runs :
        last[p].op = "validateControlTarget"
            => LET c == last[p].args[1]
                   t == last[p].args[2]
                   n == last[p].args[3]
               IN  IF c >= n \/ t >= n \/ c = t THEN Exited1(p) ELSE Returned(p)

C4_Witness ==
    \E p \in Runs :
        /\ last[p].op = "validateControlTarget"
        /\ last[p].args = <<-1, 0, 1>>
        /\ Returned(p)

\* C5: validateNumQubitsInQureg returns for 0 < n <= 50 and exits with
\* status 1 for every other int.
C5_NumQubits ==
    \A p \in Runs :
        last[p].op = "validateNumQubitsInQureg"
            => IF last[p].args[1] \in 1 .. 50 THEN Returned(p) ELSE Exited1(p)

C5_Witness ==
    \E p \in Runs :
        /\ last[p].op = "validateNumQubitsInQureg"
        /\ last[p].args = <<50>>
        /\ Returned(p)

\* C6: validateTarget exits with status 1 exactly when target >= total; it
\* returns for every target below total, negative targets and non-positive
\* totals included.
C6_Target ==
    \A p \in Runs :
        last[p].op = "validateTarget"
            => IF last[p].args[1] >= last[p].args[2] THEN Exited1(p) ELSE Returned(p)

C6_Witness ==
    \E p \in Runs :
        /\ last[p].op = "validateTarget"
        /\ last[p].args = <<INT_MIN, -1>>
        /\ Returned(p)

\* C7: validateQuregAllocation returns iff the handle is not NULL and exits
\* with status 1 for NULL, whatever the qubit count.
C7_QuregAllocation ==
    \A p \in Runs :
        last[p].op = "validateQuregAllocation"
            => IF last[p].args[1] # 0 THEN Returned(p) ELSE Exited1(p)

C7_Witness ==
    \E p \in Runs :
        /\ last[p].op = "validateQuregAllocation"
        /\ last[p].args[1] # 0
        /\ last[p].args[2] = 0
        /\ Returned(p)

\* the 64-bit value <<hi, mid, lo>> is greater than 0
LLPositive(n) == n[1] > 0 \/ (n[1] = 0 /\ n[2] + n[3] > 0)

\* C8: validateMemoryAllocationSize returns for every positive long long,
\* LLONG_MAX included, and exits with status 1 for every n <= 0.
C8_MemorySize ==
    \A p \in Runs :
        last[p].op = "validateMemoryAllocationSize"
            => IF LLPositive(last[p].args) THEN Returned(p) ELSE Exited1(p)

C8_Witness ==
    \E p \in Runs :
        /\ last[p].op = "validateMemoryAllocationSize"
        /\ last[p].args = <<2147483647, 65535, 65535>>
        /\ Returned(p)

\* C9: raiseQASMBufferOverflow can be called in every state of a running
\* process and terminates it with status 1; every termination has status 1;
\* a terminated process performs no further operation.
C9_State ==
    \A p \in Runs :
        /\ last[p].op = "raiseQASMBufferOverflow" => Exited1(p)
        /\ status[p] = "running" => ENABLED raiseQASMBufferOverflow(p)
        /\ status[p] = "exited" <=> exitStatus[p] = <<1>>
        /\ status[p] = "running" <=> exitStatus[p] = NoExit
        /\ status[p] = "exited" <=> last[p].outcome = "exited"

C9_Step ==
    \A p \in Runs :
        status[p] = "exited"
            => /\ status'[p] = "exited"
               /\ exitStatus'[p] = exitStatus[p]
               /\ last'[p].op = last[p].op /\ last'[p].args = last[p].args
               /\ initialized'[p] = initialized[p]
               /\ seed'[p] = seed[p] /\ pos'[p] = pos[p]
               /\ draws'[p] = draws[p] /\ drawn'[p] = drawn[p]

C9_OverflowTrap == []C9_State /\ [][C9_Step]_vars

C9_Witness ==
    \E p \in Runs :
        /\ last[p].op = "raiseQASMBufferOverflow"
        /\ Exited1(p)
        /\ draws[p] >= 1
        /\ key[p] # NoKey

\* C10: a guard that returns, and every triad_print_info call, leaves the
\* flag, the seed, the position in the generator sequence and the running
\* status as they were, so the value of a draw depends on the seed and the
\* position alone; genrand_real1 and init_by_array never terminate the
\* process.
C10_State ==
    \A p \in Runs :
        /\ last[p].op = "triad_print_info" => Returned(p)
        /\ last[p].op \in RngOps => Returned(p)
        /\ last[p].op = "genrand_real1"
            => last[p].ret = <<RandState(seed[p], pos[p]), RAND_MAX>>

C10_Step ==
    \A p \in Runs :
        (last'[p].op \in GuardOps \cup {"triad_print_info"}
            /\ last'[p].outcome = "returned")
            => /\ initialized'[p] = initialized[p]
               /\ seed'[p] = seed[p]
               /\ pos'[p] = pos[p]
               /\ status'[p] = status[p]
               /\ exitStatus'[p] = exitStatus[p]
               /\ key'[p] = key[p] /\ drawn'[p] = drawn[p]
               /\ draws'[p] = draws[p] /\ autoSeeds'[p] = autoSeeds[p]

C10_NoSideEffect == []C10_State /\ [][C10_Step]_vars

C10_Witness ==
    \E p \in Runs :
        /\ last[p].op \in GuardOps
        /\ Returned(p)
        /\ key[p] # NoKey
        /\ pos[p] >= 1

====
